---- MODULE Spec2Model ----
(***************************************************************************)
(* Model of the tic-tac-toe component of src/App.tsx: the three pieces of  *)
(* React state of App (board, isXNext, winningCells), the values derived   *)
(* from them on every render (winner, isDraw, gameOver) and the two event  *)
(* handlers handlePress and resetGame.                                     *)
(*                                                                         *)
(* A JavaScript array is modelled as a function whose domain holds its     *)
(* indices 0..length-1.  A hole of a sparse array is stored as Undefined:   *)
(* the only code that tells a hole from undefined is Array.prototype.every *)
(* and `undefined !== null` is true, so the result of isBoardFull is the   *)
(* same.  Indices are non-negative throughout.                             *)
(*                                                                         *)
(* rendered holds the values of the last render that the handlers close    *)
(* over and read (board, isXNext, gameOver).  React re-renders after every *)
(* event, so under Spec each tap and each reset ends with a render;        *)
(* SpecBatch lets taps run before the re-render.                           *)
(*                                                                         *)
(* pending counts the handler calls since the last render.                 *)
(*                                                                         *)
(* lastOp and prev are history variables: the handler that ran last with   *)
(* its argument and its position among the calls since the last render,    *)
(* and the React state it started from.                                    *)
(***************************************************************************)
EXTENDS Integers, Sequences, FiniteSets

VARIABLES board, isXNext, winningCells, rendered, pending, lastOp, prev

vars == <<board, isXNext, winningCells, rendered, pending, lastOp, prev>>

\* ---- bounds ----------------------------------------------------------------

\* Smallest and largest index handed to handlePress when it is called with an
\* arbitrary number: a window of numbers around the end of the board.
MinRawIndex == 5

MaxRawIndex == 9

\* Largest number of taps handled before the component re-renders.
MaxBatch == 2

\* Largest cell index tapped when taps are handled before the re-render.
MaxBatchCell == 3

\* ---- values ----------------------------------------------------------------

Null == "null"

Undefined == "undefined"

Player == {"X", "O"}

\* Number of cells of EMPTY_BOARD, and of the Board tuple type.
BoardSize == 9

\* The indices the rendered cells pass to onPress (board.map((cell, i) => ...)).
Index == 0 .. (BoardSize - 1)

\* The numbers a caller of handlePress(index: number) may pass, within the bound.
RawIndex == MinRawIndex .. MaxRawIndex

WINNING_LINES ==
  << <<0, 1, 2>>, <<3, 4, 5>>, <<6, 7, 8>>,
     <<0, 3, 6>>, <<1, 4, 7>>, <<2, 5, 8>>,
     <<0, 4, 8>>, <<2, 4, 6>> >>

EMPTY_BOARD == [i \in Index |-> Null]

\* ---- JavaScript array and value semantics ----------------------------------

\* JavaScript truthiness of a cell value: null and undefined are falsy.
Truthy(v) == v \in Player

\* b[i]: reading a missing index or property yields undefined.
Get(b, i) == IF i \in DOMAIN b THEN b[i] ELSE Undefined

\* b.length
Length(b) == Cardinality(DOMAIN b)

\* [...b]: a new array with the elements 0..length-1.
Spread(b) == [i \in 0 .. (Length(b) - 1) |-> b[i]]

\* b[i] = v: an index past the end grows the array.
Assign(b, i, v) ==
  [j \in (DOMAIN b) \cup (0 .. i) |-> IF j = i THEN v ELSE Get(b, j)]

\* ---- helpers ---------------------------------------------------------------

\* Variant of LineMatches that forgets the test that board[a] is not empty.
LineMatchesAnyEqual(b, l) ==
  /\ Get(b, l[1]) = Get(b, l[2])
  /\ Get(b, l[1]) = Get(b, l[3])

\* The test of one line in calculateWinner: board[a] && board[a] === board[b] && board[a] === board[c]
LineMatches(b, l) ==
  /\ Truthy(Get(b, l[1]))
  /\ Get(b, l[1]) = Get(b, l[2])
  /\ Get(b, l[1]) = Get(b, l[3])

RECURSIVE ScanWinner(_, _)
\* The for-of loop of calculateWinner, from the k-th line on.
ScanWinner(b, k) ==
  IF k > Len(WINNING_LINES) THEN Null
  ELSE IF LineMatches(b, WINNING_LINES[k]) THEN Get(b, WINNING_LINES[k][1])
  ELSE ScanWinner(b, k + 1)

calculateWinner(b) == ScanWinner(b, 1)

isBoardFull(b) == \A i \in 0 .. (Length(b) - 1) : b[i] # Null

\* Variant of LineHeldBy that forgets the third cell of the line.
LineHeldByTwo(b, l, w) == Get(b, l[1]) = w /\ Get(b, l[2]) = w

\* The predicate handed to WINNING_LINES.find in handlePress.
LineHeldBy(b, l, w) == Get(b, l[1]) = w /\ Get(b, l[2]) = w /\ Get(b, l[3]) = w

RECURSIVE FindFrom(_, _, _)
\* Array.prototype.find, from the k-th line on: the first line the predicate accepts.
FindFrom(b, w, k) ==
  IF k > Len(WINNING_LINES) THEN Undefined
  ELSE IF LineHeldBy(b, WINNING_LINES[k], w) THEN WINNING_LINES[k]
  ELSE FindFrom(b, w, k + 1)

RECURSIVE FindLastFrom(_, _, _)
\* A search from the last line backwards: the last line the predicate accepts.
FindLastFrom(b, w, k) ==
  IF k < 1 THEN Undefined
  ELSE IF LineHeldBy(b, WINNING_LINES[k], w) THEN WINNING_LINES[k]
  ELSE FindLastFrom(b, w, k - 1)

\* Variant of FindLine that reports the last matching line instead of the first.
FindLastLine(b, w) ==
  IF FindLastFrom(b, w, Len(WINNING_LINES)) = Undefined
    THEN << >> ELSE FindLastFrom(b, w, Len(WINNING_LINES))

\* WINNING_LINES.find(...) ?? []
FindLine(b, w) ==
  IF FindFrom(b, w, 1) = Undefined THEN << >> ELSE FindFrom(b, w, 1)

\* ---- values derived on every render ----------------------------------------

winner == calculateWinner(board)

\* Variant of isDraw that forgets the !winner conjunct.
isDrawFullOnly == isBoardFull(board)

isDraw == ~Truthy(winner) /\ isBoardFull(board)

gameOver == Truthy(winner) \/ isDraw

\* What a render of the current state puts in scope of the handlers it creates.
Rendering == [board |-> board, isXNext |-> isXNext, gameOver |-> gameOver]

\* ---- state -----------------------------------------------------------------

\* The React state of App as one record.
State == [board |-> board, isXNext |-> isXNext, winningCells |-> winningCells]

Init ==
  /\ board = EMPTY_BOARD
  /\ isXNext = TRUE
  /\ winningCells = << >>
  /\ rendered = Rendering
  /\ pending = 0
  /\ lastOp = [op |-> "init", index |-> 0, nth |-> 0]
  /\ prev = [board |-> EMPTY_BOARD, isXNext |-> TRUE, winningCells |-> << >>]

\* ---- handlers --------------------------------------------------------------

\* Variant of Rejects that forgets the occupied-cell test.
RejectsOnlyGameOver(index) == rendered.gameOver

\* Variant of Rejects that forgets the gameOver test.
RejectsOnlyOccupied(index) == Truthy(Get(rendered.board, index))

\* The early return of handlePress: if (gameOver || board[index]) return;
Rejects(index) == rendered.gameOver \/ Truthy(Get(rendered.board, index))

\* Variant of Marker that ignores whose turn it is.
MarkerAlwaysX(xNext) == "X"

\* The marker handlePress places: isXNext ? 'X' : 'O'
Marker(xNext) == IF xNext THEN "X" ELSE "O"

\* Variant of NextBoard that starts from EMPTY_BOARD instead of a copy of the board.
NextBoardFromEmpty(index) ==
  Assign(Spread(EMPTY_BOARD), index, Marker(rendered.isXNext))

\* next: the copy of the board with the marker placed.
NextBoard(index) == Assign(Spread(rendered.board), index, Marker(rendered.isXNext))

\* Variant of FlipTurn that leaves the turn as it is.
KeepTurn(p) == p

\* The functional update handed to setIsXNext after a move; React applies it to
\* the current value of the state, not to the rendered one.
FlipTurn(p) == ~p

\* The handler alone; the render that follows it is part of Press.  The
\* constants next and newWinner of the handler are bound once, as in the code.
handlePress(index) ==
  /\ lastOp' = [op |-> "press", index |-> index, nth |-> pending + 1]
  /\ prev' = State
  /\ IF Rejects(index)
       THEN UNCHANGED <<board, isXNext, winningCells>>
       ELSE \E next \in {NextBoard(index)} :
            \E newWinner \in {calculateWinner(next)} :
              /\ winningCells' = IF Truthy(newWinner)
                                   THEN FindLine(next, newWinner)
                                   ELSE winningCells
              /\ board' = next
              /\ isXNext' = FlipTurn(isXNext)

\* Variant of resetGame that forgets setWinningCells([]).
resetGameKeepsHighlight ==
  /\ lastOp' = [op |-> "reset", index |-> 0, nth |-> pending + 1]
  /\ prev' = State
  /\ board' = EMPTY_BOARD
  /\ isXNext' = TRUE
  /\ UNCHANGED winningCells

resetGame ==
  /\ lastOp' = [op |-> "reset", index |-> 0, nth |-> pending + 1]
  /\ prev' = State
  /\ board' = EMPTY_BOARD
  /\ isXNext' = TRUE
  /\ winningCells' = << >>

\* The re-render React does after an event whose handler set state.
RenderAfter == rendered' = Rendering' /\ pending' = 0

\* A tap on one of the nine rendered cells, and the re-render after it.
Press == \E i \in Index : handlePress(i) /\ RenderAfter

\* handlePress called with any number, and the re-render after it.
PressRaw == \E i \in RawIndex : handlePress(i) /\ RenderAfter

\* A tap on the reset button, and the re-render after it.
Reset == resetGame /\ RenderAfter

Next == Press \/ Reset

Spec == Init /\ [][Next]_vars

NextRaw == PressRaw \/ Reset

SpecRaw == Init /\ [][NextRaw]_vars

\* A tap handled by the handler of the last render, with no re-render after it.
TapBeforeRender ==
  /\ pending < MaxBatch
  /\ \E i \in 0 .. MaxBatchCell : handlePress(i)
  /\ pending' = pending + 1
  /\ UNCHANGED rendered

\* The re-render after a batch of handler calls.
Render ==
  /\ pending > 0
  /\ rendered' = Rendering
  /\ pending' = 0
  /\ UNCHANGED <<board, isXNext, winningCells, lastOp, prev>>

NextBatch == TapBeforeRender \/ Render \/ Reset

\* Taps that may be handled several at a time between two renders.
SpecBatch == Init /\ [][NextBatch]_vars

\* Every board over {empty, X, O}^9.
AllBoards == [Index -> Player \cup {Null}]

\* Any board set as state and not rendered yet.
InitPure ==
  /\ board \in AllBoards
  /\ isXNext = TRUE
  /\ winningCells = << >>
  /\ rendered = [board |-> EMPTY_BOARD, isXNext |-> TRUE, gameOver |-> FALSE]
  /\ pending = 1
  /\ lastOp = [op |-> "init", index |-> 0, nth |-> 0]
  /\ prev = [board |-> EMPTY_BOARD, isXNext |-> TRUE, winningCells |-> << >>]

\* calculateWinner and isBoardFull applied to any board by the render.
SpecPure == InitPure /\ [][Render]_vars

\* A tap on an empty cell, and the re-render after it.  GameCell disables the
\* occupied cells (disabled || value !== null), so these are the cells a user
\* who sees the rendered board can still try.
TapEmpty ==
  \E i \in Index : Get(board, i) = Null /\ handlePress(i) /\ RenderAfter

\* A game without reset in which taps on empty cells keep being made.
SpecLive == Init /\ [][TapEmpty]_vars /\ WF_vars(TapEmpty)

\* ---- vocabulary of the properties ------------------------------------------

\* The 8 canonical lines: 3 rows, 3 columns, 2 diagonals.
CanonicalLines ==
  {<<3 * r, 3 * r + 1, 3 * r + 2>> : r \in 0 .. 2}
    \cup {<<c, c + 3, c + 6>> : c \in 0 .. 2}
    \cup {<<0, 4, 8>>, <<2, 4, 6>>}

\* All three cells of line l hold marker p on board b.
Complete(b, l, p) == \A k \in 1 .. 3 : b[l[k]] = p

HasWinner(b) == \E l \in CanonicalLines : \E p \in Player : Complete(b, l, p)

Full(b) == \A i \in Index : b[i] # Null

Terminal(b) == HasWinner(b) \/ Full(b)

\* Number of markers on board b.
Marks(b) == Cardinality({i \in Index : b[i] # Null})

\* The last handler was handlePress.
Pressed == lastOp.op = "press"

\* The last handler was handlePress and it placed a marker.
Moved == Pressed /\ board # prev.board

\* The lines the last move turned from incomplete into held by the marker it placed.
NewlyCompleted ==
  {l \in CanonicalLines :
     /\ Complete(board, l, board[lastOp.index])
     /\ ~Complete(prev.board, l, board[lastOp.index])}

\* Position of line l in the scan order of WINNING_LINES.
ScanPos(l) == CHOOSE k \in 1 .. Len(WINNING_LINES) : WINNING_LINES[k] = l

\* ---- claims ----------------------------------------------------------------

\* C1: a tap (handlePress) on a cell that already holds a marker leaves board,
\* next player and winning-line highlight equal to their values before the tap.
C1_OccupiedTapIsNoOp ==
  (Pressed /\ prev.board[lastOp.index] \in Player) => State = prev

\* C1 witness: a tap on an occupied cell while the game was still in progress.
C1_Witness ==
  Pressed /\ prev.board[lastOp.index] \in Player /\ ~Terminal(prev.board)

\* C2: once there is a winner or a draw, a tap at any index 0..8, empty or
\* occupied, leaves board, next player and winning-line highlight unchanged.
C2_TerminalTapIsNoOp ==
  (Pressed /\ Terminal(prev.board)) => State = prev

\* C2 witness: a tap on an empty cell of a board that already had a winner.
C2_Witness ==
  Pressed /\ HasWinner(prev.board) /\ prev.board[lastOp.index] = Null

\* C3: whenever there is a winner, winningCells is one of the 8 canonical lines
\* and all three of its cells hold the winner's marker.
C3_WinningLineHeldByWinner ==
  Truthy(winner) =>
    /\ winningCells \in CanonicalLines
    /\ Complete(board, winningCells, winner)

\* C3 witness: a move has just produced a winner.
C3_Witness == Moved /\ Truthy(winner)

\* C4: between resets the k-th successful move places X when k is odd and O
\* when k is even, and a rejected tap leaves the next player as it was.
C4_MarkersAlternate ==
  /\ Moved =>
       \A i \in Index :
         board[i] # prev.board[i] =>
           board[i] = IF Marks(board) % 2 = 1 THEN "X" ELSE "O"
  /\ (Pressed /\ board = prev.board) => isXNext = prev.isXNext

\* C4 witness: the fourth successful move of a game has placed an O.
C4_Witness == Moved /\ Marks(board) = 4 /\ board[lastOp.index] = "O"

\* C5 as stated: a successful move newly completes at most one canonical line.
C5_AtMostOneLinePerMove == Moved => Cardinality(NewlyCompleted) <= 1

\* C5: a successful move newly completes at most two canonical lines, and when
\* it completes any, the line reported in winningCells is the one that comes
\* first in the scan order of WINNING_LINES.
C5_AtMostTwoLinesFirstReported ==
  Moved =>
    /\ Cardinality(NewlyCompleted) <= 2
    /\ NewlyCompleted # {} =>
         /\ winningCells \in NewlyCompleted
         /\ \A l \in NewlyCompleted : ScanPos(winningCells) <= ScanPos(l)

\* C5 witness: one move has completed two lines at once.
C5_Witness == Moved /\ Cardinality(NewlyCompleted) = 2

\* C6 as stated: the next player flips exactly on a successful move that leaves
\* the game in progress; a move that produces a win or a draw leaves it as it was.
C6_FlipsOnlyWhenGameContinues ==
  Pressed => ((isXNext # prev.isXNext) <=> (Moved /\ ~Terminal(board)))

\* C6: the next player flips on every successful move, also on one that
\* produces a win or a draw, and on no rejected tap.
C6_FlipsOnEverySuccessfulMove ==
  Pressed => ((isXNext # prev.isXNext) <=> Moved)

\* C6 witness: a move that ended the game has flipped the next player.
C6_Witness == Moved /\ Terminal(board) /\ isXNext # prev.isXNext

\* C7: a move with an index outside 0..8 returns the state unchanged, and the
\* board keeps exactly 9 cells after any sequence of operations.
C7_OutOfRangeIsNoOp ==
  /\ (Pressed /\ lastOp.index \notin Index) => State = prev
  /\ Length(board) = BoardSize

\* C8: reset yields the canonical initial state from any state: 9 empty cells,
\* X as next player, no winner, no draw, an empty winning-line highlight.
C8_ResetYieldsInitialState ==
  lastOp.op = "reset" =>
    /\ DOMAIN board = Index
    /\ \A i \in Index : board[i] = Null
    /\ isXNext = TRUE
    /\ winningCells = << >>
    /\ ~Truthy(winner)
    /\ ~isDraw

\* C8 witness: a reset of a game that had a winner and a highlighted line.
C8_Witness ==
  lastOp.op = "reset" /\ HasWinner(prev.board) /\ prev.winningCells # << >>

\* C9: in a non-terminal state a tap on an empty cell i sets exactly that cell
\* to the next player's marker and leaves every other cell as it was.
C9_MoveSetsExactlyOneCell ==
  (Pressed /\ ~Terminal(prev.board) /\ prev.board[lastOp.index] = Null) =>
    /\ DOMAIN board = Index
    /\ board[lastOp.index] = IF prev.isXNext THEN "X" ELSE "O"
    /\ \A j \in Index \ {lastOp.index} : board[j] = prev.board[j]

\* C9 witness: a tap on an empty cell of a board in progress that held markers.
C9_Witness ==
  Pressed /\ ~Terminal(prev.board) /\ prev.board[lastOp.index] = Null
    /\ Marks(prev.board) >= 3

\* C10: isDraw is true exactly when all 9 cells are non-empty and no canonical
\* line is complete, winner and isDraw are never both present, and a full board
\* with a complete line has a winner and is no draw.
C10_DrawIffFullWithoutLine ==
  /\ isDraw <=> (Full(board) /\ ~HasWinner(board))
  /\ ~(Truthy(winner) /\ isDraw)
  /\ (Full(board) /\ HasWinner(board)) => (Truthy(winner) /\ ~isDraw)

\* C10 witness: the ninth move of a game has completed a line.
C10_Witness == Moved /\ Marks(board) = BoardSize /\ HasWinner(board)

\* Number of cells of board b that hold marker p.
Count(b, p) == Cardinality({i \in Index : b[i] = p})

\* The k-th line of the documented scan order: rows, then columns, then the
\* diagonals 0-4-8 and 2-4-6.
ScanOrderLine(k) ==
  IF k <= 3 THEN <<3 * (k - 1), 3 * (k - 1) + 1, 3 * (k - 1) + 2>>
  ELSE IF k <= 6 THEN <<k - 4, k - 1, k + 2>>
  ELSE IF k = 7 THEN <<0, 4, 8>>
  ELSE <<2, 4, 6>>

\* The positions in the scan order of the lines held by one marker on board b.
CompletePositions(b) ==
  {k \in 1 .. 8 : \E p \in Player : Complete(b, ScanOrderLine(k), p)}

\* C11: within a game a cell that holds a marker never reverts to empty and
\* never changes to the other marker, whatever is tapped.
C11_PlacedMarkStays ==
  lastOp.op # "reset" =>
    \A i \in Index : prev.board[i] \in Player => board[i] = prev.board[i]

\* C11 witness: a move made on a board that already held five markers.
C11_Witness == Moved /\ Marks(prev.board) = 5

\* C12: for every board over {empty, X, O}^9 calculateWinner returns a marker
\* exactly when some canonical line is held by one marker, the marker is that of
\* the first such line in the scan order, and it returns none otherwise.
C12_WinnerIsFirstCompleteLine ==
  IF CompletePositions(board) = {}
    THEN calculateWinner(board) = Null
    ELSE \E k \in CompletePositions(board) :
           /\ \A j \in CompletePositions(board) : k <= j
           /\ calculateWinner(board) = board[ScanOrderLine(k)[1]]

\* C12 witness: a rendered board on which O holds row 3-4-5 and X holds row
\* 6-7-8, and calculateWinner has returned O.
C12_Witness ==
  /\ pending = 0
  /\ rendered.board = board
  /\ Complete(board, <<3, 4, 5>>, "O")
  /\ Complete(board, <<6, 7, 8>>, "X")
  /\ calculateWinner(board) = "O"

\* C13: when a move produces a winner, winningCells is the first line in the
\* order of WINNING_LINES whose three cells hold the winner's marker.
C13_FirstHeldLineRecorded ==
  (Moved /\ Truthy(winner)) =>
    \E k \in 1 .. Len(WINNING_LINES) :
      /\ winningCells = WINNING_LINES[k]
      /\ Complete(board, WINNING_LINES[k], winner)
      /\ \A j \in 1 .. (k - 1) : ~Complete(board, WINNING_LINES[j], winner)

\* C13 witness: a winning move after which the winner holds row 0-1-2 and column
\* 2-5-8, and the row is recorded.
C13_Witness ==
  /\ Moved
  /\ Complete(board, <<0, 1, 2>>, winner)
  /\ Complete(board, <<2, 5, 8>>, winner)
  /\ winningCells = <<0, 1, 2>>

\* C14: the number of X marks minus the number of O marks is 0 or 1, and isXNext
\* is true exactly when the two numbers are equal.
C14_CountsMatchTurn ==
  /\ Count(board, "X") - Count(board, "O") \in {0, 1}
  /\ isXNext <=> (Count(board, "X") = Count(board, "O"))

\* C14 witness: a full board, five X and four O, with O as next player.
C14_Witness == Marks(board) = BoardSize /\ ~isXNext

\* C15: no board has a complete line for X and a complete line for O at once,
\* so the winner is the marker of every complete line.
C15_OneMarkerHoldsLines ==
  /\ \A l1 \in CanonicalLines : \A l2 \in CanonicalLines :
       ~(Complete(board, l1, "X") /\ Complete(board, l2, "O"))
  /\ \A l \in CanonicalLines : \A p \in Player :
       Complete(board, l, p) => winner = p

\* C15 witness: after a win, the player to move tapped the empty cell that
\* would have completed a line of their own.
C15_Witness ==
  /\ Pressed
  /\ HasWinner(prev.board)
  /\ prev.board[lastOp.index] = Null
  /\ \E l \in CanonicalLines :
       /\ \E k \in 1 .. 3 : l[k] = lastOp.index
       /\ \A k \in 1 .. 3 :
            l[k] # lastOp.index => prev.board[l[k]] = Marker(prev.isXNext)

\* C16: winningCells is non-empty exactly when the board has a winner.
C16_HighlightIffWinner == (winningCells # << >>) <=> Truthy(winner)

\* C16 witness: a move has filled the board without a winner and nothing is
\* highlighted.
C16_Witness ==
  Moved /\ Full(board) /\ ~HasWinner(board) /\ winningCells = << >>

\* C17: every accepted tap adds one marker to a board of 9 cells, so at most 9
\* are accepted in a game, and when taps on empty cells keep being made and no
\* reset occurs the state eventually becomes terminal and stays terminal.
C17_GameTerminates ==
  /\ [](Moved => (Marks(board) = Marks(prev.board) + 1 /\ Marks(board) <= BoardSize))
  /\ <>[]Terminal(board)

\* C17 witness: the ninth accepted tap of a game.
C17_Witness == Moved /\ Marks(prev.board) = BoardSize - 1 /\ Terminal(board)

\* C18: when two taps on different empty cells are handled before the component
\* re-renders, neither placed mark is lost and isXNext is true exactly when the
\* board holds as many X as O, as after handling them one after another.
C18_BatchedTapsSerialized ==
  ( /\ Pressed
    /\ lastOp.nth = 2
    /\ ~rendered.gameOver
    /\ rendered.board[lastOp.index] = Null
    /\ prev.board[lastOp.index] = Null
    /\ prev.board # rendered.board )
  =>
    /\ \A j \in Index : prev.board[j] \in Player => board[j] = prev.board[j]
    /\ board[lastOp.index] \in Player
    /\ isXNext <=> (Count(board, "X") = Count(board, "O"))

====
